---- MODULE Spec2Model ----
(***************************************************************************)
(* State-machine model of bookstore_manager.py: the three SQLite tables    *)
(* (member, book, sale), the AUTOINCREMENT counter of the sale table, and  *)
(* the menu loop that drives add_sale, print_sale_report, update_sale and  *)
(* delete_sale.  A console prompt inside update_sale / delete_sale is a    *)
(* position of the program (pc); the locals that survive the prompt are    *)
(* state (sales, record).  out is what the last operation returned or      *)
(* printed; everSid records every sale id the table has held.              *)
(* Spec is one run of the program after another on bookstore.db;           *)
(* SpecShared adds a second run that deletes sales from the same file.     *)
(***************************************************************************)
EXTENDS Integers, Sequences, FiniteSets, TLC

VARIABLES member, book, sale, seq, pc, sales, record, out, everSid

vars == <<member, book, sale, seq, pc, sales, record, out, everSid>>

(***************************************************************************)
(* Bounds of the model.                                                    *)
(***************************************************************************)
\* largest sale id the model lets AUTOINCREMENT hand out
MaxSid == 6

(***************************************************************************)
(* Inputs typed at the prompts.                                            *)
(***************************************************************************)
NewDate == <<"2", "0", "2", "4", "-", "0", "2", "-", "0", "1">>
SlashDate == <<"2", "0", "2", "4", "/", "0", "2", "/", "0", "1">>
ShortDate == <<"2", "4", "-", "2", "-", "1">>
DateInputs == {NewDate, SlashDate, ShortDate}
MidInputs == {"M002", "M999"}
BidInputs == {"B001", "B003", "B999"}
QtyInputs == {0, 21}
DiscountInputs == {-5, 13000}
ChoiceInputs == 0 .. MaxSid
Faults == {"none", "insert", "update", "commit"}

(***************************************************************************)
(* Seed rows of initialize_db.                                             *)
(***************************************************************************)
Date0115 == <<"2", "0", "2", "4", "-", "0", "1", "-", "1", "5">>
Date0116 == <<"2", "0", "2", "4", "-", "0", "1", "-", "1", "6">>
Date0117 == <<"2", "0", "2", "4", "-", "0", "1", "-", "1", "7">>
Date0118 == <<"2", "0", "2", "4", "-", "0", "1", "-", "1", "8">>

SeedMembers ==
    { [mid |-> "M001", mname |-> "Alice", mphone |-> "0912-345678", memail |-> "alice@example.com"],
      [mid |-> "M002", mname |-> "Bob", mphone |-> "0923-456789", memail |-> "bob@example.com"],
      [mid |-> "M003", mname |-> "Cathy", mphone |-> "0934-567890", memail |-> "cathy@example.com"] }

SeedBooks ==
    { [bid |-> "B001", btitle |-> "Python Programming", bprice |-> 600, bstock |-> 50],
      [bid |-> "B002", btitle |-> "Data Science Basics", bprice |-> 800, bstock |-> 30],
      [bid |-> "B003", btitle |-> "Machine Learning Guide", bprice |-> 1200, bstock |-> 20] }

SeedSales ==
    { [sid |-> 1, sdate |-> Date0115, mid |-> "M001", bid |-> "B001", sqty |-> 2, sdiscount |-> 100, stotal |-> 1100],
      [sid |-> 2, sdate |-> Date0116, mid |-> "M002", bid |-> "B002", sqty |-> 1, sdiscount |-> 50, stotal |-> 750],
      [sid |-> 3, sdate |-> Date0117, mid |-> "M001", bid |-> "B003", sqty |-> 3, sdiscount |-> 200, stotal |-> 3400],
      [sid |-> 4, sdate |-> Date0118, mid |-> "M003", bid |-> "B001", sqty |-> 1, sdiscount |-> 0, stotal |-> 600] }

(***************************************************************************)
(* Helpers.                                                                *)
(***************************************************************************)
MaxOf(S) == IF S = {} THEN 0 ELSE CHOOSE x \in S : \A y \in S : y <= x

Sids(rows) == {r.sid : r \in rows}

\* str.count(ch)
Count(s, ch) == Cardinality({i \in 1 .. Len(s) : s[i] = ch})

is_valid_date(date_str) == Len(date_str) = 10 /\ Count(date_str, "-") = 2

\* a connection's view of the database file: the tables and sqlite_sequence
Conn(m, b, s, q) == [member |-> m, book |-> b, sale |-> s, seq |-> q]

EmptyDb == Conn({}, {}, {}, 0)

\* INSERT OR IGNORE of rows with an explicit primary key
InsertOrIgnoreMembers(table, rows) ==
    table \cup {r \in rows : \A t \in table : t.mid # r.mid}

InsertOrIgnoreBooks(table, rows) ==
    table \cup {r \in rows : \A t \in table : t.bid # r.bid}

InsertOrIgnoreSales(table, rows) ==
    table \cup {r \in rows : \A t \in table : t.sid # r.sid}

\* an AUTOINCREMENT table's counter never falls behind a rowid it has held
initialize_db(conn) ==
    LET s == InsertOrIgnoreSales(conn.sale, SeedSales)
    IN Conn(InsertOrIgnoreMembers(conn.member, SeedMembers),
            InsertOrIgnoreBooks(conn.book, SeedBooks),
            s,
            MaxOf({conn.seq} \cup Sids(s)))

(***************************************************************************)
(* What an operation hands back or prints.                                 *)
(***************************************************************************)
Out(op, ok, kind, sid, num, cause, rows) ==
    [op |-> op, ok |-> ok, kind |-> kind, sid |-> sid, num |-> num, cause |-> cause,
     rows |-> rows]

NoRecord == [sid |-> 0, sqty |-> 0, bprice |-> 0]

(***************************************************************************)
(* add_sale                                                                *)
(***************************************************************************)
SelectMember(conn, mid) == {m \in conn.member : m.mid = mid}

SelectBook(conn, bid) == {b \in conn.book : b.bid = bid}

\* variant: a total clamped at zero
SaleTotalClamped(bprice, sqty, sdiscount) ==
    IF bprice * sqty - sdiscount < 0 THEN 0 ELSE bprice * sqty - sdiscount

\* book['bprice'] * sqty - sdiscount
SaleTotal(bprice, sqty, sdiscount) == bprice * sqty - sdiscount

\* variant: a plain INTEGER PRIMARY KEY, which hands out max(rowid) + 1
NewRowidReuse(conn) == MaxOf(Sids(conn.sale)) + 1

\* sid INTEGER PRIMARY KEY AUTOINCREMENT: one more than the largest rowid ever held
NewRowid(conn) == MaxOf({conn.seq} \cup Sids(conn.sale)) + 1

InsertSale(conn, sdate, mid, bid, sqty, sdiscount, stotal) ==
    LET sid == NewRowid(conn)
    IN [conn EXCEPT
          !.sale = @ \cup {[sid |-> sid, sdate |-> sdate, mid |-> mid, bid |-> bid,
                            sqty |-> sqty, sdiscount |-> sdiscount, stotal |-> stotal]},
          !.seq = sid]

UpdateStock(conn, sqty, bid) ==
    [conn EXCEPT
       !.book = {IF b.bid = bid THEN [b EXCEPT !.bstock = @ - sqty] ELSE b : b \in @}]

\* variant: a rollback that keeps the writes made so far
RollbackKeep(committed, working) == working

\* conn.rollback(): back to the last committed state

Rollback(committed, working) == committed

\* variant: no stock check
StockShortNever(b, sqty) == FALSE

\* book['bstock'] < sqty
StockShort(b, sqty) == b.bstock < sqty

\* variant: the message shows the requested quantity
InsufficientStockQty(b, sqty) ==
    Out("add_sale", FALSE, "InsufficientStock", 0, sqty, "", <<>>)

\* "錯誤：書籍庫存不足 (現有庫存: {book['bstock']})"
InsufficientStock(b, sqty) ==
    Out("add_sale", FALSE, "InsufficientStock", 0, b.bstock, "", <<>>)

\* variant: only the book is looked up
InvalidRefBookOnly(mrows, brows) == brows = {}

\* not member or not book
InvalidRef(mrows, brows) == mrows = {} \/ brows = {}

\* the value add_sale returns and the database it leaves; fault names the
\* statement of the transaction that raises sqlite3.Error ("none": none does)
add_sale(conn, sdate, mid, bid, sqty, sdiscount, fault) ==
    LET mrows == SelectMember(conn, mid)
        brows == SelectBook(conn, bid)
    IN IF InvalidRef(mrows, brows)
       THEN [conn |-> conn, ret |-> Out("add_sale", FALSE, "InvalidReference", 0, 0, "", <<>>)]
       ELSE LET b == CHOOSE x \in brows : TRUE
            IN IF StockShort(b, sqty)
               THEN [conn |-> conn, ret |-> InsufficientStock(b, sqty)]
               ELSE LET stotal == SaleTotal(b.bprice, sqty, sdiscount)
                        t1 == InsertSale(conn, sdate, mid, bid, sqty, sdiscount, stotal)
                        t2 == UpdateStock(t1, sqty, bid)
                        working == CASE fault = "insert" -> conn
                                     [] fault = "update" -> t1
                                     [] OTHER -> t2
                    IN IF fault = "none"
                       THEN [conn |-> t2,
                             ret |-> Out("add_sale", TRUE, "Added", 0, stotal, "", <<>>)]
                       ELSE [conn |-> Rollback(conn, working),
                             ret |-> Out("add_sale", FALSE, "StorageError", 0, 0, fault, <<>>)]

(***************************************************************************)
(* Queries of print_sale_report, update_sale and delete_sale.              *)
(***************************************************************************)
\* ORDER BY sid of rows with distinct sids
RECURSIVE OrderBySid(_)
OrderBySid(rows) ==
    IF rows = {} THEN <<>>
    ELSE LET r == CHOOSE x \in rows : \A y \in rows : x.sid <= y.sid
         IN <<r>> \o OrderBySid(rows \ {r})

\* FROM sale s JOIN member m ON s.mid = m.mid JOIN book b ON s.bid = b.bid
JoinReport(conn) ==
    { [sid |-> s.sid, sdate |-> s.sdate, mname |-> m.mname, btitle |-> b.btitle,
       bprice |-> b.bprice, sqty |-> s.sqty, sdiscount |-> s.sdiscount,
       stotal |-> s.stotal] :
      <<s, m, b>> \in {t \in conn.sale \X conn.member \X conn.book :
                         t[1].mid = t[2].mid /\ t[1].bid = t[3].bid} }

\* variant: the sale id printed as the sequence number
EnumerateBySid(rows, start) ==
    [i \in 1 .. Len(rows) |-> [idx |-> rows[i].sid, row |-> rows[i]]]

\* enumerate(sales, start=1): the printed "銷售 #idx" beside each fetched row
Enumerate(rows, start) ==
    [i \in 1 .. Len(rows) |-> [idx |-> start + i - 1, row |-> rows[i]]]

print_sale_report(conn) == Enumerate(OrderBySid(JoinReport(conn)), 1)

\* SELECT sale.sid, member.mname, sale.sdate FROM sale JOIN member ... ORDER BY sale.sid
SelectSaleList(conn) ==
    OrderBySid({ [sid |-> s.sid, mname |-> m.mname, sdate |-> s.sdate] :
                 <<s, m>> \in {t \in conn.sale \X conn.member : t[1].mid = t[2].mid} })

\* SELECT sale.sid, sale.sqty, book.bprice FROM sale JOIN book ... WHERE sale.sid = ?
SelectSaleRecord(conn, sid) ==
    { [sid |-> s.sid, sqty |-> s.sqty, bprice |-> b.bprice] :
      <<s, b>> \in {t \in conn.sale \X conn.book :
                      t[1].bid = t[2].bid /\ t[1].sid = sid} }

\* sales[choice - 1]["sid"] of a 0-based list: the choice-th listed row
ChosenSid(listing, choice) == listing[choice].sid

BadChoice(listing, choice) == choice < 1 \/ choice > Len(listing)

\* variant: an UPDATE without its WHERE clause
UpdateSaleRowAll(rows, new_discount, new_total, sid) ==
    {[s EXCEPT !.sdiscount = new_discount, !.stotal = new_total] : s \in rows}

\* UPDATE sale SET sdiscount = ?, stotal = ? WHERE sid = ?
UpdateSaleRow(rows, new_discount, new_total, sid) ==
    { IF s.sid = sid
      THEN [s EXCEPT !.sdiscount = new_discount, !.stotal = new_total]
      ELSE s : s \in rows }

\* variant: a DELETE that also takes the older rows
DeleteSaleRowUpTo(rows, sid) == {s \in rows : s.sid > sid}

\* DELETE FROM sale WHERE sid = ?
DeleteSaleRow(rows, sid) == {s \in rows : s.sid # sid}

Db == Conn(member, book, sale, seq)

SetDb(conn) ==
    /\ member' = conn.member
    /\ book' = conn.book
    /\ sale' = conn.sale
    /\ seq' = conn.seq

Init ==
    LET conn == initialize_db(EmptyDb)
    IN /\ member = conn.member
       /\ book = conn.book
       /\ sale = conn.sale
       /\ seq = conn.seq
       /\ pc = "menu"
       /\ sales = <<>>
       /\ record = NoRecord
       /\ out = Out("main", TRUE, "Started", 0, 0, "", <<>>)
       /\ everSid = Sids(conn.sale)

\* menu choice 1 with a date is_valid_date rejects
MenuAddBadDate(sdate) ==
    /\ pc = "menu"
    /\ ~is_valid_date(sdate)
    /\ out' = Out("main", FALSE, "BadDate", 0, 0, "", <<>>)
    /\ UNCHANGED <<member, book, sale, seq, pc, sales, record, everSid>>

\* menu choice 1: the prompts hand add_sale a quantity > 0 and a discount >= 0
MenuAddSale(sdate, mid, bid, sqty, sdiscount, fault) ==
    /\ pc = "menu"
    /\ is_valid_date(sdate)
    /\ ~(sqty <= 0)
    /\ ~(sdiscount < 0)
    /\ LET r == add_sale(Db, sdate, mid, bid, sqty, sdiscount, fault)
       IN /\ r.conn.seq <= MaxSid
          /\ out' = r.ret
          /\ SetDb(r.conn)
          /\ everSid' = everSid \cup Sids(r.conn.sale)
    /\ UNCHANGED <<pc, sales, record>>

\* menu choice 2
MenuReport ==
    /\ pc = "menu"
    /\ out' = Out("print_sale_report", TRUE, "Report", 0, 0, "", print_sale_report(Db))
    /\ UNCHANGED <<member, book, sale, seq, pc, sales, record, everSid>>

\* menu choice 3, up to the first prompt
update_sale_list ==
    /\ pc = "menu"
    /\ LET l == SelectSaleList(Db)
       IN IF l = <<>>
          THEN /\ out' = Out("update_sale", TRUE, "NoRecords", 0, 0, "", <<>>)
               /\ UNCHANGED <<pc, sales>>
          ELSE /\ out' = Out("update_sale", TRUE, "Listed", 0, 0, "", l)
               /\ sales' = l
               /\ pc' = "update_choice"
    /\ UNCHANGED <<member, book, sale, seq, record, everSid>>

\* Enter at the first prompt
update_sale_cancel ==
    /\ pc = "update_choice"
    /\ pc' = "menu"
    /\ sales' = <<>>
    /\ out' = Out("update_sale", TRUE, "Cancelled", 0, 0, "", <<>>)
    /\ UNCHANGED <<member, book, sale, seq, record, everSid>>

\* a number at the first prompt, up to the discount prompt
update_sale_choice(choice) ==
    /\ pc = "update_choice"
    /\ IF BadChoice(sales, choice)
       THEN /\ out' = Out("update_sale", FALSE, "BadChoice", 0, 0, "", <<>>)
            /\ pc' = "menu"
            /\ UNCHANGED record
       ELSE LET sid == ChosenSid(sales, choice)
                found == SelectSaleRecord(Db, sid)
            IN IF found = {}
               THEN /\ out' = Out("update_sale", FALSE, "NotFound", sid, 0, "", <<>>)
                    /\ pc' = "menu"
                    /\ UNCHANGED record
               ELSE /\ record' = CHOOSE r \in found : TRUE
                    /\ out' = Out("update_sale", TRUE, "Chosen", sid, 0, "", <<>>)
                    /\ pc' = "update_discount"
    /\ sales' = <<>>
    /\ UNCHANGED <<member, book, sale, seq, everSid>>

\* a discount >= 0 at the second prompt, the UPDATE and the commit
update_sale_write(new_discount) ==
    /\ pc = "update_discount"
    /\ ~(new_discount < 0)
    /\ LET new_total == SaleTotal(record.bprice, record.sqty, new_discount)
       IN /\ sale' = UpdateSaleRow(sale, new_discount, new_total, record.sid)
          /\ out' = Out("update_sale", TRUE, "Updated", record.sid, new_total, "", <<>>)
    /\ pc' = "menu"
    /\ record' = NoRecord
    /\ UNCHANGED <<member, book, seq, sales, everSid>>

\* menu choice 4, up to the prompt
delete_sale_list ==
    /\ pc = "menu"
    /\ LET l == SelectSaleList(Db)
       IN IF l = <<>>
          THEN /\ out' = Out("delete_sale", TRUE, "NoRecords", 0, 0, "", <<>>)
               /\ UNCHANGED <<pc, sales>>
          ELSE /\ out' = Out("delete_sale", TRUE, "Listed", 0, 0, "", l)
               /\ sales' = l
               /\ pc' = "delete_choice"
    /\ UNCHANGED <<member, book, sale, seq, record, everSid>>

\* Enter at the prompt
delete_sale_cancel ==
    /\ pc = "delete_choice"
    /\ pc' = "menu"
    /\ sales' = <<>>
    /\ out' = Out("delete_sale", TRUE, "Cancelled", 0, 0, "", <<>>)
    /\ UNCHANGED <<member, book, sale, seq, record, everSid>>

\* a number at the prompt: out of range asks again, in range deletes and commits
delete_sale_choice(choice) ==
    /\ pc = "delete_choice"
    /\ IF BadChoice(sales, choice)
       THEN /\ out' = Out("delete_sale", FALSE, "BadChoice", 0, 0, "", <<>>)
            /\ UNCHANGED <<pc, sales, sale>>
       ELSE LET sid == ChosenSid(sales, choice)
            IN /\ sale' = DeleteSaleRow(sale, sid)
               /\ out' = Out("delete_sale", TRUE, "Deleted", sid, 0, "", <<>>)
               /\ pc' = "menu"
               /\ sales' = <<>>
    /\ UNCHANGED <<member, book, seq, record, everSid>>

\* any other menu input
MenuInvalid ==
    /\ pc = "menu"
    /\ out' = Out("main", FALSE, "InvalidOption", 0, 0, "", <<>>)
    /\ UNCHANGED <<member, book, sale, seq, pc, sales, record, everSid>>

\* menu choice 5 or Enter, and the program started again on the same bookstore.db
Restart ==
    /\ pc = "menu"
    /\ LET conn == initialize_db(Db)
       IN /\ SetDb(conn)
          /\ everSid' = everSid \cup Sids(conn.sale)
    /\ out' = Out("main", TRUE, "Started", 0, 0, "", <<>>)
    /\ UNCHANGED <<pc, sales, record>>

\* a second run of the program on the same bookstore.db completes a delete_sale
PeerDeleteSale(sid) ==
    /\ sid \in Sids(sale)
    /\ sale' = DeleteSaleRow(sale, sid)
    /\ UNCHANGED <<member, book, seq, pc, sales, record, out, everSid>>

Next ==
    \/ \E d \in DateInputs : MenuAddBadDate(d)
    \/ \E d \in DateInputs, m \in MidInputs, b \in BidInputs, q \in QtyInputs,
          dc \in DiscountInputs, f \in Faults : MenuAddSale(d, m, b, q, dc, f)
    \/ MenuReport
    \/ update_sale_list
    \/ update_sale_cancel
    \/ \E c \in ChoiceInputs : update_sale_choice(c)
    \/ \E dc \in DiscountInputs : update_sale_write(dc)
    \/ delete_sale_list
    \/ delete_sale_cancel
    \/ \E c \in ChoiceInputs : delete_sale_choice(c)
    \/ MenuInvalid
    \/ Restart

Spec == Init /\ [][Next]_vars

NextShared ==
    \/ Next
    \/ \E sid \in 1 .. MaxSid : PeerDeleteSale(sid)

SpecShared == Init /\ [][NextShared]_vars

(***************************************************************************)
(* Properties.                                                             *)
(***************************************************************************)
\* every add_sale call the menu makes: (sdate, mid, bid, sqty, sdiscount) with
\* a date is_valid_date accepts, a quantity > 0 and a discount >= 0
AddCalls ==
    { <<d, m, b, q, dc>> :
        d \in {x \in DateInputs : is_valid_date(x)}, m \in MidInputs, b \in BidInputs,
        q \in {x \in QtyInputs : x > 0}, dc \in {x \in DiscountInputs : x >= 0} }

MemberExists(mid) == \E m \in member : m.mid = mid

BookExists(bid) == \E b \in book : b.bid = bid

StockOf(bid) == (CHOOSE b \in book : b.bid = bid).bstock

PriceOf(bid) == (CHOOSE b \in book : b.bid = bid).bprice

\* C1: an add_sale call with an existing member, an existing book and
\* sqty <= the book's stock, in which no statement raises, succeeds: that
\* book's stock drops by exactly sqty, exactly one sale row is added, carrying
\* the given date, member, book, quantity and discount and
\* total = price * sqty - discount (unclamped), and every other book and every
\* earlier sale row is unchanged.
C1_AddSaleSuccess ==
    [][\A c \in AddCalls :
         ( /\ MemberExists(c[2])
           /\ BookExists(c[3])
           /\ c[4] <= StockOf(c[3])
           /\ MenuAddSale(c[1], c[2], c[3], c[4], c[5], "none") )
         => /\ out'.ok
            /\ out'.kind = "Added"
            /\ out'.num = PriceOf(c[3]) * c[4] - c[5]
            /\ \E bk \in book :
                 /\ bk.bid = c[3]
                 /\ book' = (book \ {bk}) \cup {[bk EXCEPT !.bstock = bk.bstock - c[4]]}
            /\ \E new \in sale' :
                 /\ new.sid \notin Sids(sale)
                 /\ sale' = sale \cup {new}
                 /\ Cardinality(sale') = Cardinality(sale) + 1
                 /\ new.sdate = c[1]
                 /\ new.mid = c[2]
                 /\ new.bid = c[3]
                 /\ new.sqty = c[4]
                 /\ new.sdiscount = c[5]
                 /\ new.stotal = PriceOf(c[3]) * c[4] - c[5]
            /\ member' = member
      ]_vars

\* a second sale with a negative total has been added and its book's stock
\* reduced again
C1_Witness ==
    /\ out.kind = "Added"
    /\ out.num = 600 * 21 - 13000
    /\ \E s \in sale : s.sid = 6 /\ s.bid = "B001" /\ s.sqty = 21 /\ s.stotal = -400
    /\ StockOf("B001") = 8
    /\ StockOf("B003") = 20

\* C2: in every reachable state the stock of every book is >= 0.
C2_StockNonNegative == \A b \in book : b.bstock >= 0

\* two sales have taken B001 down to 8 and the next one was refused
C2_Witness ==
    /\ StockOf("B001") = 8
    /\ out.kind = "InsufficientStock"
    /\ out.num = 8

\* C3: sale ids are unique, and the id a successful add_sale assigns is
\* greater than every sale id that has ever existed, deleted ones included.
C3_SidNeverReused ==
    [][/\ Sids(sale') \subseteq everSid'
       /\ Cardinality(Sids(sale')) = Cardinality(sale')
       /\ \A s \in sale' :
            ( /\ s.sid \notin Sids(sale)
              /\ \E c \in AddCalls, f \in Faults :
                   MenuAddSale(c[1], c[2], c[3], c[4], c[5], f) )
            => \A e \in everSid : s.sid > e
      ]_vars

\* sale 4, the highest id, was deleted and the next add_sale got id 5
C3_Witness ==
    /\ out.kind = "Added"
    /\ 4 \notin Sids(sale)
    /\ 5 \in Sids(sale)
    /\ 4 \in everSid

\* C4: add_sale never leaves a sale row without its stock decrement or a
\* decrement without its row; when a statement of the transaction raises, the
\* call returns the storage error with its cause and the database is as it
\* was before the call.
C4_AddSaleAtomic ==
    [][/\ ((sale' # sale) # (book' # book))
          => ~\E c \in AddCalls, f \in Faults :
                MenuAddSale(c[1], c[2], c[3], c[4], c[5], f)
       /\ \A c \in AddCalls :
            ( /\ MemberExists(c[2])
              /\ BookExists(c[3])
              /\ c[4] <= StockOf(c[3]) )
            => \A f \in Faults \ {"none"} :
                 MenuAddSale(c[1], c[2], c[3], c[4], c[5], f)
                 => /\ sale' = sale
                    /\ book' = book
                    /\ seq' = seq
                    /\ member' = member
                    /\ ~out'.ok
                    /\ out'.kind = "StorageError"
                    /\ out'.cause = f
      ]_vars

\* the UPDATE of the stock raised after the INSERT, and nothing was kept
C4_Witness ==
    /\ out.kind = "StorageError"
    /\ out.cause = "update"
    /\ seq = 4
    /\ Sids(sale) \subseteq 1 .. 4
    /\ book = SeedBooks

\* C5: add_sale with an unknown member id or an unknown book id returns the
\* invalid-reference error, the same for both, and changes nothing.
C5_InvalidReference ==
    [][(\E c \in AddCalls, f \in Faults :
          /\ ~MemberExists(c[2]) \/ ~BookExists(c[3])
          /\ MenuAddSale(c[1], c[2], c[3], c[4], c[5], f))
       => /\ out' = Out("add_sale", FALSE, "InvalidReference", 0, 0, "", <<>>)
          /\ UNCHANGED <<member, book, sale, seq>>
      ]_vars

\* a call with a bad reference was refused after an earlier sale went through
C5_Witness ==
    /\ out.kind = "InvalidReference"
    /\ 5 \in Sids(sale)
    /\ StockOf("B001") = 29

\* C6: add_sale with an existing member and book but sqty > the book's stock
\* returns the insufficient-stock error carrying the book's current stock,
\* and changes nothing.
C6_InsufficientStock ==
    [][\A c \in AddCalls :
         ( /\ MemberExists(c[2])
           /\ BookExists(c[3])
           /\ c[4] > StockOf(c[3])
           /\ \E f \in Faults : MenuAddSale(c[1], c[2], c[3], c[4], c[5], f) )
         => /\ ~out'.ok
            /\ out'.kind = "InsufficientStock"
            /\ out'.num = StockOf(c[3])
            /\ UNCHANGED <<member, book, sale, seq>>
      ]_vars

\* 21 copies of B003 were asked for with 20 left, after a sale of B001: the
\* error shows B003's 20
C6_Witness ==
    /\ out.kind = "InsufficientStock"
    /\ out.num = 20
    /\ StockOf("B003") = 20
    /\ StockOf("B001") = 29

\* C7: update_sale on an existing sale sets that sale's discount to the new
\* discount and its total to the current price of its book times its own
\* quantity minus the new discount, and changes nothing else: not the sale's
\* id, date, member, book or quantity, not another sale row, not a book.
C7_UpdateSaleFrame ==
    [][\A dc \in DiscountInputs :
         update_sale_write(dc)
         => \E old \in sale :
              /\ old.sid = record.sid
              /\ sale' = (sale \ {old})
                           \cup {[old EXCEPT !.sdiscount = dc,
                                             !.stotal = PriceOf(old.bid) * old.sqty - dc]}
              /\ Cardinality(sale') = Cardinality(sale)
              /\ book' = book
              /\ member' = member
              /\ seq' = seq
              /\ out'.kind = "Updated"
              /\ out'.sid = old.sid
              /\ out'.num = PriceOf(old.bid) * old.sqty - dc
      ]_vars

\* seed sale 3 (3 copies of B003 at 1200) now carries the new discount and
\* total, beside the untouched sale 1
C7_Witness ==
    /\ out.kind = "Updated"
    /\ out.sid = 3
    /\ \E s \in sale :
         /\ s.sid = 3
         /\ s.sqty = 3
         /\ s.sdiscount = 13000
         /\ s.stotal = 1200 * 3 - 13000
    /\ \E s \in sale : s.sid = 1 /\ s.sdiscount = 100 /\ s.stotal = 1100
    /\ book = SeedBooks

\* C8: delete_sale removes exactly the row of the chosen sale: every other
\* sale row and every book's stock is unchanged (nothing is credited back).
C8_DeleteSaleFrame ==
    [][\A choice \in ChoiceInputs :
         ( /\ pc = "delete_choice"
           /\ choice >= 1
           /\ choice <= Len(sales)
           /\ delete_sale_choice(choice) )
         => \E old \in sale :
              /\ old.sid = sales[choice].sid
              /\ sale' = sale \ {old}
              /\ Cardinality(sale') = Cardinality(sale) - 1
              /\ book' = book
              /\ member' = member
              /\ seq' = seq
              /\ out'.kind = "Deleted"
              /\ out'.sid = old.sid
      ]_vars

\* the sale of 21 copies of B001 was deleted and B001 still has 29 in stock
C8_Witness ==
    /\ out.kind = "Deleted"
    /\ out.sid = 5
    /\ Sids(sale) = {1, 2, 3, 4}
    /\ StockOf("B001") = 29

\* C9: when the id delete_sale is about to delete is the id of no sale row,
\* it fails with a not-found error, reports no deletion and changes nothing.
C9_DeleteNotFound ==
    [][\A choice \in ChoiceInputs :
         ( /\ pc = "delete_choice"
           /\ choice >= 1
           /\ choice <= Len(sales)
           /\ sales[choice].sid \notin Sids(sale)
           /\ delete_sale_choice(choice) )
         => /\ ~out'.ok
            /\ out'.kind = "NotFound"
            /\ sale' = sale
            /\ book' = book
      ]_vars

\* C10: the sale report has exactly one row per sale row, in ascending order
\* of sale id, the row at position k carrying sequence number k; printing it
\* changes nothing in the store.
C10_ReportRows ==
    [][MenuReport
       => /\ UNCHANGED <<member, book, sale, seq>>
          /\ LET rows == out'.rows
             IN /\ Len(rows) = Cardinality(sale)
                /\ {rows[k].row.sid : k \in 1 .. Len(rows)} = Sids(sale)
                /\ \A k \in 1 .. Len(rows) : rows[k].idx = k
                /\ \A j, k \in 1 .. Len(rows) :
                     j < k => rows[j].row.sid < rows[k].row.sid
                /\ \A k \in 1 .. Len(rows) :
                     \E s \in sale :
                       /\ s.sid = rows[k].row.sid
                       /\ s.sdate = rows[k].row.sdate
                       /\ s.sqty = rows[k].row.sqty
                       /\ s.sdiscount = rows[k].row.sdiscount
                       /\ s.stotal = rows[k].row.stotal
      ]_vars

\* sales 1, 3 and 4 are reported with sequence numbers 1, 2 and 3
C10_Witness ==
    /\ out.kind = "Report"
    /\ Sids(sale) = {1, 3, 4}
    /\ Len(out.rows) = 3
    /\ out.rows[2].idx = 2
    /\ out.rows[2].row.sid = 3
    /\ out.rows[3].idx = 3
    /\ out.rows[3].row.sid = 4

====
